---- MODULE Spec2Model ----
(***************************************************************************)
(* Model of the advent-calendar coupon application (MGYTT/calendary):      *)
(* the Home page ledger (state.redeemedCoupons, redeemedDates), the        *)
(* browser localStorage keys it persists to, the Door / CouponModal        *)
(* handlers that lead to a redemption, and the DataManager backup codec    *)
(* (export, import, reset).                                                *)
(***************************************************************************)
EXTENDS Integers, Sequences, FiniteSets, TLC

\* ------------------------------------------------------------------------
\* Bounds of the model
\* ------------------------------------------------------------------------

\* Doors 1..MaxDoor are the ones the user clicks; the clock visits the
\* instants 0..MaxDoor (see getMonth / getDate).
MaxDoor == 1

\* SpecStats evaluates getCouponStats on arrays of up to MaxRedeemed ids.
MaxRedeemed == 25

\* ------------------------------------------------------------------------
\* Program constants
\* ------------------------------------------------------------------------

NumCoupons == 24
DECEMBER_MONTH == 11
MaxFileSize == 1048576
NoCoupon == 0

BACKUP_VERSION == "1.0.0"

\* category of coupon i (coupons.ts, entries id 1..24, id = day)
couponCategory ==
  << "relaxation", "romantic", "home", "romantic", "romantic", "surprise",
     "home", "relaxation", "home", "relaxation", "adventure", "creative",
     "relaxation", "creative", "home", "home", "relaxation", "romantic",
     "creative", "romantic", "romantic", "surprise", "romantic", "surprise" >>

coupons ==
  [i \in 1..NumCoupons |-> [id |-> i, day |-> i, category |-> couponCategory[i]]]

\* the empty catalog and the shipped one: the configurations getCouponStats
\* is evaluated on in SpecStats
Catalogs == { SubSeq(coupons, 1, 0), coupons }

\* the id arrays getCouponStats is evaluated on in SpecStats:
\* [first, first + 1, ...] of length 0..MaxRedeemed, first = 1 or 2
StatsInputs ==
  { [i \in 1..k |-> [t |-> "number", n |-> i + o, f |-> 0]] :
      k \in 0..MaxRedeemed, o \in 0..1 }

Doors == 1..MaxDoor

\* ------------------------------------------------------------------------
\* The clock: new Date()
\* ------------------------------------------------------------------------

\* Instant 0 is a day outside December (30 November, of any year), instants
\* 1..MaxDoor are 1..MaxDoor December; the years turn, so the clock reaches
\* instant 0 from December as well as December from instant 0.
\* toISOString() is injective on instants, so a timestamp is represented by
\* its instant.
Instants == 0..MaxDoor

getMonth(t) == IF t = 0 THEN 10 ELSE DECEMBER_MONTH

getDate(t) == IF t = 0 THEN 30 ELSE t

\* ------------------------------------------------------------------------
\* JavaScript values, arrays, Set<number>
\* ------------------------------------------------------------------------

\* a JS scalar: number n + f/10 (f = 0 for an integer) or a string
Num(n) == [t |-> "number", n |-> n, f |-> 0]
Frac(n, f) == [t |-> "number", n |-> n, f |-> f]
Str(k) == [t |-> "string", n |-> k, f |-> 0]

Range(s) == { s[i] : i \in 1..Len(s) }

\* A Set<number> is a set of JS values; an array is a sequence.
\* new Set(array)
NewSet(arr) == Range(arr)

\* [...set]: the array lists the members in insertion order; the model
\* lists them in ascending order of (t, n, f), nothing in the program
\* depends on the order
Before(x, y) ==
  \/ x.t = "number" /\ y.t = "string"
  \/ x.t = y.t /\ x.n < y.n
  \/ x.t = y.t /\ x.n = y.n /\ x.f < y.f

RECURSIVE SetToArray(_)
SetToArray(set) ==
  IF set = {} THEN <<>>
  ELSE LET x == CHOOSE y \in set : \A z \in set \ {y} : Before(y, z)
       IN  <<x>> \o SetToArray(set \ {x})

\* Set.prototype.add
SetAdd(set, x) == set \cup {x}

\* ------------------------------------------------------------------------
\* localStorage values
\* ------------------------------------------------------------------------

\* value under 'redeemedCoupons': missing, a JSON array, or a JSON object
StoredAbsent == [kind |-> "absent", arr |-> <<>>]
StoredArray(a) == [kind |-> "array", arr |-> a]
StoredObject(a) == [kind |-> "object", arr |-> a]

\* value under 'redeemedDates': missing, or a JSON object id -> timestamp
DatesAbsent == [kind |-> "absent", map |-> <<>>]
DatesObject(m) == [kind |-> "object", map |-> m]

\* { ...dates, [couponId]: ts }
Spread(dates, couponId, ts) == (couponId :> ts) @@ dates

\* ------------------------------------------------------------------------
\* Backup files offered to the import dialog
\* ------------------------------------------------------------------------

\* the value JSON.parse yields: its top-level type, the type and items of
\* its redeemedCoupons property, the type of exportDate, and version
Doc(top, rcT, items, edT, ver) ==
  [top |-> top, rcT |-> rcT, items |-> items, edT |-> edT, version |-> ver]

NoDoc == Doc("undefined", "undefined", <<>>, "undefined", "undefined")

\* file content: "json" (parses to doc), "garbage" (JSON.parse throws),
\* "empty" (the empty string)
File(name, size, kind, doc) ==
  [name |-> name, size |-> size, kind |-> kind, doc |-> doc]

NoFile == File("", 0, "empty", NoDoc)

BackupFile(items, ver) ==
  File("backup.json", 100, "json", Doc("object", "array", items, "string", ver))

ValidFiles ==
  { BackupFile(<<Num(1)>>, BACKUP_VERSION),
    BackupFile(<<>>, "0.9.0"),
    BackupFile(<<Num(2), Num(NumCoupons + 1)>>, BACKUP_VERSION) }

\* documents that must be rejected as InvalidFormat: not JSON, not an
\* object, redeemedCoupons not an array, redeemedCoupons an array of
\* strings, exportDate missing
MalformedFiles ==
  { File("backup.json", 100, "garbage", NoDoc),
    File("backup.json", 100, "json",
         Doc("number", "undefined", <<>>, "undefined", "undefined")),
    File("backup.json", 100, "json",
         Doc("object", "string", <<>>, "string", BACKUP_VERSION)),
    File("backup.json", 100, "json",
         Doc("object", "array", <<Str(1), Str(2)>>, "string", BACKUP_VERSION)),
    File("backup.json", 100, "json",
         Doc("object", "array", <<Num(2)>>, "undefined", BACKUP_VERSION)) }

\* files stopped before they are read, and the empty file
RefusedFiles ==
  { File("backup.txt", 100, "json",
         Doc("object", "array", <<Num(2)>>, "string", BACKUP_VERSION)),
    File("backup.json", MaxFileSize + 1, "json",
         Doc("object", "array", <<Num(2)>>, "string", BACKUP_VERSION)),
    File("backup.json", 0, "empty", NoDoc) }

Files == ValidFiles \cup MalformedFiles \cup RefusedFiles

\* file.name.endsWith('.json')
endsWithJson(name) == name = "backup.json"

\* variant: the element types of redeemedCoupons are not checked
validateBackupData_NoElementCheck(data) ==
  IF data.top \notin {"object", "array"} THEN FALSE
  ELSE IF data.rcT # "array" THEN FALSE
  ELSE IF data.edT # "string" THEN FALSE
  ELSE TRUE

validateBackupData(data) ==
  IF data.top \notin {"object", "array"} THEN FALSE
  ELSE IF data.rcT # "array" THEN FALSE
  ELSE IF ~ (\A i \in 1..Len(data.items) : data.items[i].t = "number") THEN FALSE
  ELSE IF data.edT # "string" THEN FALSE
  ELSE TRUE

\* ------------------------------------------------------------------------
\* State
\* ------------------------------------------------------------------------

VARIABLES
  now,            \* the wall clock
  storedCoupons,  \* localStorage 'redeemedCoupons'
  storedDates,    \* localStorage 'redeemedDates'
  storedAuth,     \* localStorage 'advent-auth' = 'true'
  state,          \* Home: state.selectedCoupon, state.redeemedCoupons
  redeemedDates,  \* Home: redeemedDates
  isAuthenticated,\* Home: isAuthenticated
  renderClock,    \* clock value read by the last render of Home
  flipTimers,     \* doors whose 350 ms flip timer is pending
  isAnimating,    \* CouponModal: isAnimating (300 ms redeem timer pending)
  resetToast,     \* DataManager: the reset confirmation toast is shown
  resetTimer,     \* DataManager: reload scheduled by a confirmed reset
  importTimer,    \* DataManager: reload prompt scheduled by an import
  download,       \* the file exportData has just downloaded; it is offered to
                  \* the import dialog until any other handler runs
  lastOp,         \* history: outcome of the last handler, "other" if unnamed
  imported,       \* history: the backup document whose import was the last
                  \* write of the user to 'redeemedCoupons' on this page
  fnArg,          \* SpecStats: argument of getCouponStats
  fnResult,       \* SpecStats: result of getCouponStats
  storedName,     \* localStorage 'herName' ("" when absent)
  herName,        \* Home: herName (useLocalStorage value)
  isHydrated,     \* Home: isHydrated (useLocalStorage of 'herName')
  isMounted,      \* Home: isMounted
  showAuthModal,  \* Home: showAuthModal
  commit          \* React: phase of the render cycle of Home, the view and
                  \* the effect dependencies of its last render, and whether
                  \* initializeData has run since the page was loaded

homeVars == << state, redeemedDates, isAuthenticated, renderClock >>
storeVars == << storedCoupons, storedDates, storedAuth >>
timerVars == << flipTimers, isAnimating, resetTimer, importTimer >>
fnVars == << fnArg, fnResult >>
mountVars == << storedName, herName, isHydrated, isMounted, showAuthModal,
               commit >>

vars == << now, storedCoupons, storedDates, storedAuth, state, redeemedDates,
           isAuthenticated, renderClock, flipTimers, isAnimating, resetToast,
           resetTimer, importTimer, download, lastOp, imported,
           fnArg, fnResult, storedName, herName, isHydrated, isMounted,
           showAuthModal, commit >>

\* ------------------------------------------------------------------------
\* Derived values of Home
\* ------------------------------------------------------------------------

\* what new Date() reads at instant t
DateOf(t) == [month |-> getMonth(t), date |-> getDate(t)]

\* variant: the day itself still counts as locked
isUnlockedOn_DayAfter(day, today) ==
  today.month = DECEMBER_MONTH /\ today.date > day

\* Home.isUnlocked(day) with today = new Date():
\* currentMonth === 11 && currentDay >= day
isUnlockedOn(day, today) ==
  today.month = DECEMBER_MONTH /\ today.date >= day

isUnlockedAt(day, t) == isUnlockedOn(day, DateOf(t))

\* Home.isUnlocked: reads new Date() when called
isUnlocked(day) == isUnlockedAt(day, now)

isRedeemed(couponId) == Num(couponId) \in state.redeemedCoupons

\* ------------------------------------------------------------------------
\* coupons.ts: statistics
\* ------------------------------------------------------------------------

\* a JS number that is the result of Math.round
Finite(v) == [kind |-> "finite", v |-> v]
NaN == [kind |-> "NaN", v |-> 0]
Infinity == [kind |-> "Infinity", v |-> 0]

\* Math.round((redeemed / total) * 100).  For total <= 24 the quotients
\* that land on a half (total 8, 16, 24) are exact binary fractions, so
\* the double result is the exact round-half-up value.
percentageOf(redeemed, total) ==
  IF total = 0
    THEN (IF redeemed = 0 THEN NaN ELSE Infinity)
    ELSE Finite((200 * redeemed + total) \div (2 * total))

\* coupons.filter(coupon => redeemedIds.includes(coupon.id))
getRedeemedCoupons(catalog, redeemedIds) ==
  SelectSeq(catalog, LAMBDA c : Num(c.id) \in Range(redeemedIds))

\* reduce((acc, coupon) => acc[coupon.category] = (acc[...] || 0) + 1)
countByCategory(list) ==
  [c \in { list[i].category : i \in 1..Len(list) } |->
     Cardinality({ i \in 1..Len(list) : list[i].category = c })]

\* variant: redeemed counts the catalog coupons found among redeemedIds
getCouponStats_CountsCatalogOnly(catalog, redeemedIds) ==
  LET total == Len(catalog)
      redeemed == Len(getRedeemedCoupons(catalog, redeemedIds))
      remaining == total - redeemed
  IN  [ total |-> total,
        redeemed |-> redeemed,
        remaining |-> remaining,
        percentage |-> percentageOf(redeemed, total),
        categoryCounts |-> countByCategory(catalog),
        redeemedByCategory |->
          countByCategory(getRedeemedCoupons(catalog, redeemedIds)) ]

getCouponStats(catalog, redeemedIds) ==
  LET total == Len(catalog)
      redeemed == Len(redeemedIds)
      remaining == total - redeemed
  IN  [ total |-> total,
        redeemed |-> redeemed,
        remaining |-> remaining,
        percentage |-> percentageOf(redeemed, total),
        categoryCounts |-> countByCategory(catalog),
        redeemedByCategory |->
          countByCategory(getRedeemedCoupons(catalog, redeemedIds)) ]

\* Home.stats: getCouponStats([...state.redeemedCoupons])
stats == getCouponStats(coupons, SetToArray(state.redeemedCoupons))

\* ------------------------------------------------------------------------
\* Door: what a door shows for the props Home rendered it with
\* ------------------------------------------------------------------------

\* Door.statusText and the lock overlay (!isUnlocked is tested first)
statusText(doorUnlocked, doorRedeemed) ==
  IF ~doorUnlocked THEN "Locked"
  ELSE IF doorRedeemed THEN "Redeemed"
  ELSE "Unlocked"

\* props of <Door> at the last render of Home
doorIsUnlocked(id) == isUnlockedAt(coupons[id].day, renderClock)

doorStatus(id) == statusText(doorIsUnlocked(id), isRedeemed(id))

\* ------------------------------------------------------------------------
\* Init: a fresh browser profile, first page load at any instant
\* ------------------------------------------------------------------------

EmptyCatalog == SubSeq(coupons, 1, 0)
NoArg == [catalog |-> EmptyCatalog, redeemedIds |-> <<>>]
NoResult == [done |-> FALSE, out |-> getCouponStats(EmptyCatalog, <<>>)]

NoImport == [pending |-> FALSE, items |-> <<>>]
Imported(items) == [pending |-> TRUE, items |-> items]

\* what Home returns: null behind the render guard, else the page with the
\* door grid (isAuthenticated), the gate (showAuthModal) or neither
homeView_GuardOnly(mounted, hydrated, authenticated, authModal) ==
  IF ~mounted \/ ~hydrated THEN "null" ELSE "grid"

homeView(mounted, hydrated, authenticated, authModal) ==
  IF ~mounted \/ ~hydrated THEN "null"
  ELSE IF authenticated THEN "grid"
  ELSE IF authModal THEN "gate"
  ELSE "blank"

\* the dependencies of the effects of Home that change after the mount
Deps(mounted, hydrated, name) ==
  [isMounted |-> mounted, isHydrated |-> hydrated, herName |-> name]

\* Home has rendered, its effects have run and changed nothing more
Settled(view, deps) ==
  [phase |-> "idle", view |-> view, deps |-> deps, first |-> FALSE,
   initialized |-> TRUE]

\* Home is about to render for the first time
Mounting ==
  [phase |-> "render", view |-> "none", deps |-> Deps(FALSE, FALSE, ""),
   first |-> TRUE, initialized |-> FALSE]

InitHome ==
  /\ state = [selectedCoupon |-> NoCoupon, redeemedCoupons |-> {}]
  /\ storedName = ""
  /\ herName = ""
  /\ isHydrated = TRUE
  /\ isMounted = TRUE
  /\ showAuthModal = TRUE
  /\ commit = Settled("gate", Deps(TRUE, TRUE, ""))
  /\ redeemedDates = <<>>
  /\ isAuthenticated = FALSE
  /\ renderClock = now
  /\ flipTimers = {}
  /\ isAnimating = FALSE
  /\ resetToast = FALSE
  /\ resetTimer = FALSE
  /\ importTimer = FALSE

Init ==
  /\ now \in Instants
  /\ storedCoupons = StoredAbsent
  /\ storedDates = DatesAbsent
  /\ storedAuth = FALSE
  /\ InitHome
  /\ download = NoFile
  /\ lastOp = "other"
  /\ imported = NoImport
  /\ fnArg = NoArg
  /\ fnResult = NoResult

\* the exported file is no longer on offer
Forget == download' = NoFile

\* ------------------------------------------------------------------------
\* The clock moves (to a later day, or round to the next year)
\* ------------------------------------------------------------------------

Tick ==
  /\ now' \in Instants \ {now}
  /\ UNCHANGED << mountVars, storeVars, homeVars, timerVars, resetToast,
                  download, lastOp, fnVars, imported >>

\* ------------------------------------------------------------------------
\* Page load: Home mounts and hydrates from localStorage
\* ------------------------------------------------------------------------

\* Home initializeData, the 'redeemedCoupons' part
initializeData(prev, saved) ==
  IF saved.kind = "absent" THEN prev
  ELSE IF saved.kind = "array" THEN NewSet(saved.arr)
  ELSE prev

\* Home initializeData, the 'redeemedDates' part
initializeDates(prev, savedDates) ==
  IF savedDates.kind = "absent" THEN prev ELSE savedDates.map

\* a page load: every timer and all component state of the old page is gone
PageLoad ==
  /\ state' = [selectedCoupon |-> NoCoupon,
               redeemedCoupons |-> initializeData({}, storedCoupons)]
  /\ redeemedDates' = initializeDates(<<>>, storedDates)
  /\ isAuthenticated' = storedAuth
  /\ renderClock' = now
  /\ flipTimers' = {}
  /\ isAnimating' = FALSE
  /\ resetToast' = FALSE
  /\ resetTimer' = FALSE
  /\ importTimer' = FALSE
  /\ download' = NoFile
  /\ imported' = NoImport
  /\ herName' = storedName
  /\ isMounted' = TRUE
  /\ isHydrated' = TRUE
  /\ showAuthModal' = ~storedAuth
  /\ commit' = Settled(homeView(TRUE, TRUE, storedAuth, ~storedAuth),
                       Deps(TRUE, TRUE, storedName))
  /\ UNCHANGED << now, storedName, storeVars, fnVars >>

\* the user reloads the page
UserReload ==
  /\ PageLoad
  /\ lastOp' = "other"

\* Home.handleAuthenticate(success), called by AuthModal.handleSubmit
handleAuthenticate(success) ==
  /\ ~isAuthenticated
  /\ showAuthModal
  /\ IF success
       THEN /\ storedAuth' = TRUE
            /\ isAuthenticated' = TRUE
            /\ showAuthModal' = FALSE
            /\ renderClock' = now
            /\ commit' = [commit EXCEPT !.view = "grid"]
       ELSE UNCHANGED << storedAuth, isAuthenticated, showAuthModal,
                         renderClock, commit >>
  /\ lastOp' = "other"
  /\ Forget
  /\ UNCHANGED << now, herName, storedName, isMounted, isHydrated,
                  storedCoupons, storedDates, state, redeemedDates,
                  timerVars, resetToast, fnVars, imported >>

\* ------------------------------------------------------------------------
\* Door and CouponModal
\* ------------------------------------------------------------------------

\* Door.handleClick: tests the isUnlocked prop of the last render
Door_handleClick(id) ==
  /\ isAuthenticated
  /\ IF ~doorIsUnlocked(id)
       THEN UNCHANGED flipTimers
       ELSE flipTimers' = flipTimers \cup {id}
  /\ lastOp' = "other"
  /\ Forget
  /\ UNCHANGED << now, mountVars, storeVars, homeVars, isAnimating, resetTimer,
                  importTimer, resetToast, fnVars, imported >>

\* Home.handleDoorClick(couponId, unlocked)
handleDoorClick(couponId, unlocked) ==
  IF ~unlocked
    THEN UNCHANGED << state, renderClock >>
    ELSE /\ state' = [state EXCEPT !.selectedCoupon = couponId]
         /\ renderClock' = now

\* the flip timer of Door.handleClick fires:
\* onClick() = handleDoorClick(coupon.id, isUnlocked(coupon.day))
FlipTimerFires(id) ==
  /\ id \in flipTimers
  /\ flipTimers' = flipTimers \ {id}
  /\ handleDoorClick(id, isUnlocked(coupons[id].day))
  /\ lastOp' = "other"
  /\ Forget
  /\ UNCHANGED << now, mountVars, storeVars, redeemedDates, isAuthenticated, isAnimating,
                  resetTimer, importTimer, resetToast, fnVars, imported >>

\* Home.handleCloseModal
handleCloseModal ==
  /\ state.selectedCoupon # NoCoupon
  /\ state' = [state EXCEPT !.selectedCoupon = NoCoupon]
  /\ renderClock' = now
  /\ lastOp' = "other"
  /\ Forget
  /\ UNCHANGED << now, mountVars, storeVars, redeemedDates, isAuthenticated, timerVars,
                  resetToast, fnVars, imported >>

\* variant: the new object holds the new timestamp only
saveRedeemedDate_OnlyNew(dates, couponId, ts) == Spread(<< >>, couponId, ts)

\* Home.saveRedeemedDate: the new redeemedDates object
saveRedeemedDate(dates, couponId, ts) == Spread(dates, couponId, ts)

\* variant: the new set is not seeded with prev.redeemedCoupons
addRedeemed_ForgetsPrevious(prev, couponId) == {Num(couponId)}

\* Home.handleRedeem: the new redeemed set
addRedeemed(prev, couponId) == SetAdd(prev, Num(couponId))

\* Home.handleRedeem(couponId)
handleRedeem(couponId) ==
  LET newRedeemed == addRedeemed(state.redeemedCoupons, couponId)
      newDates == saveRedeemedDate(redeemedDates, couponId, now)
  IN  /\ storedCoupons' = StoredArray(SetToArray(newRedeemed))
      /\ state' = [state EXCEPT !.redeemedCoupons = newRedeemed]
      /\ redeemedDates' = newDates
      /\ storedDates' = DatesObject(newDates)
      /\ renderClock' = now
      /\ lastOp' = "other"
      /\ imported' = NoImport

\* CouponModal.handleRedeem: the redeem button is rendered while
\* !isRedeemed and enabled while !isAnimating;
\* onRedeem = () => state.selectedCoupon && handleRedeem(state.selectedCoupon)
CouponModal_handleRedeem ==
  /\ isAuthenticated
  /\ state.selectedCoupon # NoCoupon
  /\ ~isRedeemed(state.selectedCoupon)
  /\ ~isAnimating
  /\ isAnimating' = TRUE
  /\ handleRedeem(state.selectedCoupon)
  /\ Forget
  /\ UNCHANGED << now, mountVars, storedAuth, isAuthenticated, flipTimers, resetTimer,
                  importTimer, resetToast, fnVars >>

\* the 300 ms timer of CouponModal.handleRedeem fires
RedeemTimerFires ==
  /\ isAnimating
  /\ isAnimating' = FALSE
  /\ lastOp' = "other"
  /\ Forget
  /\ UNCHANGED << now, mountVars, storeVars, homeVars, flipTimers, resetTimer,
                  importTimer, resetToast, fnVars, imported >>

\* variant: the interval callback skips a set of one coupon as well
AutoSave_OnlyAboveOne ==
  /\ IF Cardinality(state.redeemedCoupons) > 1
       THEN storedCoupons' = StoredArray(SetToArray(state.redeemedCoupons))
       ELSE UNCHANGED storedCoupons
  /\ lastOp' = "other"
  /\ Forget
  /\ UNCHANGED << now, mountVars, storedDates, storedAuth, homeVars,
                  timerVars, resetToast, fnVars, imported >>

\* Home auto-save effect: the 30 s interval fires
AutoSave ==
  /\ IF Cardinality(state.redeemedCoupons) > 0
       THEN storedCoupons' = StoredArray(SetToArray(state.redeemedCoupons))
       ELSE UNCHANGED storedCoupons
  /\ lastOp' = "other"
  /\ Forget
  /\ UNCHANGED << now, mountVars, storedDates, storedAuth, homeVars, timerVars,
                  resetToast, fnVars, imported >>

\* ------------------------------------------------------------------------
\* DataManager: export, import, reset (localStorage is available)
\* ------------------------------------------------------------------------

\* the document exportData builds from the stored value, as the
\* JSON.stringify of the download and the JSON.parse of an import give it
backupDocument(data) ==
  Doc("object", data.kind, data.arr, "string", BACKUP_VERSION)

\* DataManager.exportData
exportData ==
  /\ isAuthenticated
  /\ IF storedCoupons.kind = "absent"
       THEN /\ Forget
            /\ lastOp' = "export-refused"
       ELSE /\ download' =
                 File("backup.json", 100, "json", backupDocument(storedCoupons))
            /\ lastOp' = "other"
  /\ UNCHANGED << now, mountVars, storeVars, homeVars, timerVars, resetToast, fnVars, imported >>

\* the value DataManager writes under 'redeemedCoupons':
\* JSON.stringify(data.redeemedCoupons)
importedValue(data) == StoredArray(data.items)

\* DataManager.handleFileSelect, reader.onload: the FileReader callback
onload(file) ==
  IF file.kind = "empty"
    THEN /\ lastOp' = "import-rejected"
         /\ UNCHANGED << storedCoupons, importTimer, imported >>
    ELSE IF file.kind = "garbage"
      THEN /\ lastOp' = "import-rejected"
           /\ UNCHANGED << storedCoupons, importTimer, imported >>
      ELSE IF ~validateBackupData(file.doc)
        THEN /\ lastOp' = "import-rejected"
             /\ UNCHANGED << storedCoupons, importTimer, imported >>
        ELSE /\ storedCoupons' = importedValue(file.doc)
             /\ importTimer' = TRUE
             /\ imported' = Imported(file.doc.items)
             /\ lastOp' = "other"

\* DataManager.handleFileSelect(file) with the FileReader callback it
\* registers.  The callback is the only code that reads the file and
\* nothing reads isImporting but the import button, so running it with
\* the selection loses no behaviour of the ledger.
handleFileSelect(file) ==
  /\ isAuthenticated
  /\ file # NoFile
  /\ IF ~endsWithJson(file.name)
       THEN /\ lastOp' = "other"
            /\ UNCHANGED << storedCoupons, importTimer, imported >>
       ELSE IF file.size > MaxFileSize
         THEN /\ lastOp' = "other"
              /\ UNCHANGED << storedCoupons, importTimer, imported >>
         ELSE onload(file)
  /\ download' = NoFile
  /\ UNCHANGED << now, mountVars, storedDates, storedAuth, homeVars, flipTimers,
                  isAnimating, resetTimer, resetToast, fnVars >>

\* the 1 s timer of a successful import fires: confirm(...), reload on yes
ImportTimerFires(answer) ==
  /\ importTimer
  /\ IF answer
       THEN /\ PageLoad
            /\ lastOp' = "other"
       ELSE /\ importTimer' = FALSE
            /\ lastOp' = "other"
            /\ Forget
            /\ UNCHANGED << now, mountVars, storeVars, homeVars, flipTimers, isAnimating,
                            resetTimer, resetToast, fnVars, imported >>

\* DataManager.resetData: shows the confirmation toast
\* variant: the menu entry removes the ledger at once, with no toast
resetData_NoConfirmation ==
  /\ isAuthenticated
  /\ storedCoupons' = StoredAbsent
  /\ resetTimer' = TRUE
  /\ lastOp' = "other"
  /\ imported' = NoImport
  /\ Forget
  /\ UNCHANGED << now, mountVars, storedDates, storedAuth, homeVars,
                  flipTimers, isAnimating, importTimer, resetToast, fnVars >>

resetData ==
  /\ isAuthenticated
  /\ resetToast' = TRUE
  /\ lastOp' = "other"
  /\ Forget
  /\ UNCHANGED << now, mountVars, storeVars, homeVars, timerVars, fnVars, imported >>

\* variant: the reset clears the whole store, the session flag included
ConfirmReset_ClearsStore ==
  /\ resetToast
  /\ storedCoupons' = StoredAbsent
  /\ storedDates' = DatesAbsent
  /\ storedAuth' = FALSE
  /\ storedName' = ""
  /\ resetTimer' = TRUE
  /\ resetToast' = FALSE
  /\ lastOp' = "other"
  /\ imported' = NoImport
  /\ Forget
  /\ UNCHANGED << now, herName, isHydrated, isMounted, showAuthModal, commit,
                  homeVars, flipTimers, isAnimating, importTimer, fnVars >>

\* the 'Tak, resetuj' button of the confirmation toast
ConfirmReset ==
  /\ resetToast
  /\ storedCoupons' = StoredAbsent
  /\ resetTimer' = TRUE
  /\ resetToast' = FALSE
  /\ lastOp' = "other"
  /\ imported' = NoImport
  /\ Forget
  /\ UNCHANGED << now, mountVars, storedDates, storedAuth, homeVars, flipTimers,
                  isAnimating, importTimer, fnVars >>

\* the 'Anuluj' button of the confirmation toast
CancelReset ==
  /\ resetToast
  /\ resetToast' = FALSE
  /\ lastOp' = "other"
  /\ Forget
  /\ UNCHANGED << now, mountVars, storeVars, homeVars, timerVars, fnVars, imported >>

\* the 1 s timer of a confirmed reset fires: window.location.reload()
ResetTimerFires ==
  /\ resetTimer
  /\ PageLoad
  /\ lastOp' = "other"

\* ------------------------------------------------------------------------
\* The application
\* ------------------------------------------------------------------------

\* ------------------------------------------------------------------------
\* WelcomeOverlay: finish / handleSkip store the name and call
\* Home.handleWelcomeComplete(name); herName is a dependency of the
\* initializeData effect, which therefore runs again
\* ------------------------------------------------------------------------

WelcomeNames == { "Kochana" }

handleWelcomeComplete(name) ==
  /\ isAuthenticated
  /\ herName = ""
  /\ herName' = name
  /\ storedName' = name
  /\ state' = [state EXCEPT
                 !.redeemedCoupons = initializeData(@, storedCoupons)]
  /\ redeemedDates' = initializeDates(redeemedDates, storedDates)
  /\ renderClock' = now
  /\ commit' = [commit EXCEPT !.deps.herName = name]
  /\ lastOp' = "other"
  /\ Forget
  /\ UNCHANGED << now, isHydrated, isMounted, showAuthModal, storeVars,
                  isAuthenticated, timerVars, resetToast, fnVars, imported >>

Next ==
  \/ Tick
  \/ UserReload
  \/ \E success \in BOOLEAN : handleAuthenticate(success)
  \/ \E name \in WelcomeNames : handleWelcomeComplete(name)
  \/ \E id \in Doors : Door_handleClick(id)
  \/ \E id \in Doors : FlipTimerFires(id)
  \/ handleCloseModal
  \/ CouponModal_handleRedeem
  \/ RedeemTimerFires
  \/ AutoSave
  \/ exportData
  \/ \E file \in Files \cup {download} : handleFileSelect(file)
  \/ \E answer \in BOOLEAN : ImportTimerFires(answer)
  \/ resetData
  \/ ConfirmReset
  \/ CancelReset
  \/ ResetTimerFires

Spec == Init /\ [][Next]_vars

\* ------------------------------------------------------------------------
\* SpecLedger: the ledger and the backup codec without the Door and
\* CouponModal layer; Home.handleRedeem is called directly, for any door
\* and at any time the page is shown
\* ------------------------------------------------------------------------

\* Home.handleRedeem(couponId) with no CouponModal in front of it
LedgerRedeem(couponId) ==
  /\ isAuthenticated
  /\ handleRedeem(couponId)
  /\ Forget
  /\ UNCHANGED << now, mountVars, storedAuth, isAuthenticated, timerVars,
                  resetToast, fnVars >>

NextLedger ==
  \/ Tick
  \/ UserReload
  \/ \E success \in BOOLEAN : handleAuthenticate(success)
  \/ \E name \in WelcomeNames : handleWelcomeComplete(name)
  \/ \E id \in Doors : LedgerRedeem(id)
  \/ AutoSave
  \/ exportData
  \/ \E file \in Files \cup {download} : handleFileSelect(file)
  \/ \E answer \in BOOLEAN : ImportTimerFires(answer)
  \/ resetData
  \/ ConfirmReset
  \/ CancelReset
  \/ ResetTimerFires

SpecLedger == Init /\ [][NextLedger]_vars

\* ------------------------------------------------------------------------
\* SpecRedeem: the ledger with reset but without the backup files, for one
\* coupon more than SpecLedger redeems
\* ------------------------------------------------------------------------

RedeemIds == 1..(MaxDoor + 1)

NextRedeem ==
  \/ Tick
  \/ UserReload
  \/ \E success \in BOOLEAN : handleAuthenticate(success)
  \/ \E id \in RedeemIds : LedgerRedeem(id)
  \/ AutoSave
  \/ resetData
  \/ ConfirmReset
  \/ CancelReset
  \/ ResetTimerFires

SpecRedeem == Init /\ [][NextRedeem]_vars

\* ------------------------------------------------------------------------
\* SpecAutoSave: one page that stays open. A redeem comes from the coupon
\* modal, which offers it for a coupon that is not redeemed; its writes reach
\* localStorage, or localStorage throws (the quota is exceeded) and
\* safeLocalStorage.setItem returns false. The 30 s interval is started
\* again by every change of state.redeemedCoupons and fires once the
\* redeems have stopped.
\* ------------------------------------------------------------------------

\* Home.handleRedeem(couponId) while localStorage.setItem throws
MissedRedeem(couponId) ==
  /\ isAuthenticated
  /\ state' = [state EXCEPT
                 !.redeemedCoupons = addRedeemed(@, couponId)]
  /\ redeemedDates' = saveRedeemedDate(redeemedDates, couponId, now)
  /\ renderClock' = now
  /\ lastOp' = "other"
  /\ Forget
  /\ UNCHANGED << now, mountVars, storeVars, isAuthenticated, timerVars,
                  resetToast, fnVars, imported >>

NextAutoSave ==
  \/ Tick
  \/ handleAuthenticate(TRUE)
  \/ \E id \in RedeemIds : ~isRedeemed(id) /\ LedgerRedeem(id)
  \/ \E id \in RedeemIds : ~isRedeemed(id) /\ MissedRedeem(id)
  \/ AutoSave

SpecAutoSave == Init /\ [][NextAutoSave]_vars /\ WF_vars(AutoSave)

\* ------------------------------------------------------------------------
\* SpecStats: getCouponStats on a catalog and an array of redeemed ids
\* ------------------------------------------------------------------------

InitStats ==
  /\ now = 0
  /\ storedCoupons = StoredAbsent
  /\ storedDates = DatesAbsent
  /\ storedAuth = FALSE
  /\ InitHome
  /\ download = NoFile
  /\ lastOp = "other"
  /\ imported = NoImport
  /\ fnArg \in [catalog : Catalogs, redeemedIds : StatsInputs]
  /\ fnResult = NoResult

ApplyStats ==
  /\ ~fnResult.done
  /\ fnResult' = [done |-> TRUE,
                  out |-> getCouponStats(fnArg.catalog, fnArg.redeemedIds)]
  /\ UNCHANGED << now, mountVars, storeVars, homeVars, timerVars, resetToast, download,
                  lastOp, imported, fnArg >>

NextStats == ApplyStats

SpecStats == InitStats /\ [][NextStats]_vars

\* ------------------------------------------------------------------------
\* SpecFn: the helper functions of the application, each applied once to
\* an input drawn from its domain
\* ------------------------------------------------------------------------

\* getMonth() is 0..11, getDate() is 1..DaysIn[month + 1]
DaysIn == << 31, 29, 31, 30, 31, 30, 31, 31, 30, 31, 30, 31 >>

CalendarDates ==
  { d \in [month : 0..11, date : 1..31] : d.date <= DaysIn[d.month + 1] }

IsUnlockedInputs ==
  [fn : {"isUnlocked"}, day : 1..NumCoupons, today : CalendarDates]

\* AuthModal: the three text inputs, each maxLength = 2; a string is the
\* sequence of its characters
maxLength == 2

Chars == { "0", "2", "3", " " }

Strings == UNION { [1..k -> Chars] : k \in 0..maxLength }

\* String.prototype.trim
RECURSIVE trim(_)
trim(s) ==
  IF s = << >> THEN s
  ELSE IF Head(s) = " " THEN trim(Tail(s))
  ELSE IF s[Len(s)] = " " THEN trim(SubSeq(s, 1, Len(s) - 1))
  ELSE s

\* String.prototype.padStart(targetLength, padString)
padStart(s, targetLength, padString) ==
  IF Len(s) >= targetLength \/ padString = << >> THEN s
  ELSE [i \in 1..(targetLength - Len(s)) |->
          padString[((i - 1) % Len(padString)) + 1]] \o s

\* AuthModal.handleSubmit: TRUE iff onAuthenticate(true) is called
handleSubmit(day, month, year) ==
  LET d == padStart(trim(day), 2, << "0" >>)
      m == padStart(trim(month), 2, << "0" >>)
      y == padStart(trim(year), 2, << "2", "3" >>)
  IN  IF d = << >> \/ m = << >> \/ y = << >> THEN FALSE
      ELSE d = << "0", "3" >> /\ m = << "0", "2" >> /\ y = << "2", "3" >>

AuthInputs ==
  [fn : {"authenticate"}, day : Strings, month : Strings, year : Strings]

\* a stored string that JSON.parse rejects
StoredGarbage == [kind |-> "garbage", arr |-> << >>]

JsonItems == { Num(1), Num(2), Str(1), Frac(1, 5) }

\* values of 'redeemedCoupons' in a store the application did not write
StoredValues ==
  { StoredAbsent, StoredGarbage, StoredObject(<< >>) } \cup
  { StoredArray(a) : a \in UNION { [1..k -> JsonItems] : k \in 0..2 } }

HydrateInputs == [fn : {"initializeData"}, saved : StoredValues]

\* every place where a component touches localStorage: the handler, the
\* Storage method it calls, and whether the call sits inside a try/catch
Site(component, handler, op, guarded) ==
  [component |-> component, handler |-> handler, op |-> op,
   guarded |-> guarded]

StorageSites ==
  { Site("Home", "authentication check", "getItem", TRUE),
    Site("Home", "initializeData", "getItem", TRUE),
    Site("Home", "handleAuthenticate", "setItem", TRUE),
    Site("Home", "handleRedeem", "setItem", TRUE),
    Site("Home", "auto-save", "setItem", TRUE),
    Site("useLocalStorage", "read effect", "getItem", TRUE),
    Site("useLocalStorage", "write effect", "setItem", TRUE),
    Site("DataManager", "exportData", "getItem", TRUE),
    Site("DataManager", "onload", "setItem", TRUE),
    Site("DataManager", "resetData", "removeItem", TRUE),
    Site("Profile", "mount effect", "getItem", FALSE),
    Site("Profile", "handleViewModeChange", "setItem", FALSE),
    Site("Profile", "handleSortModeChange", "setItem", FALSE) }

\* one handler runs against a store that throws or not: does the exception
\* leave the handler, and the redeemed set a new Home has afterwards
runHandler(site, throws, couponId) ==
  [escaped |-> throws /\ ~site.guarded,
   redeemedCoupons |-> IF site.handler = "handleRedeem"
                         THEN addRedeemed({}, couponId)
                         ELSE {}]

StorageInputs ==
  [fn : {"storage"}, site : StorageSites, throws : BOOLEAN, couponId : Doors]

\* parsed JSON documents handed to validateBackupData: objects with any
\* redeemedCoupons and exportDate, and values that are not objects
ParsedDocs ==
  { Doc("object", "array", items, edT, BACKUP_VERSION) :
      items \in UNION { [1..k -> JsonItems] : k \in 0..2 },
      edT \in { "string", "number", "undefined" } } \cup
  { Doc("object", rcT, << >>, "string", BACKUP_VERSION) :
      rcT \in { "string", "object", "undefined" } } \cup
  { Doc(top, "undefined", << >>, "undefined", "undefined") :
      top \in { "null", "number", "string", "array" } }

ValidateInputs == [fn : {"validateBackupData"}, data : ParsedDocs]

\* Home.handleRedeem, the milestone part: newCount is the size of the set
\* of the last render plus one; 12 and 24 schedule the toasts
milestone(redeemedCoupons) ==
  LET newCount == Cardinality(redeemedCoupons) + 1
  IN  IF newCount = 12 THEN "half"
      ELSE IF newCount = 24 THEN "all"
      ELSE "none"

\* handleRedeem(couponId) on a page where coupons 1..redeemed are redeemed
MilestoneInputs ==
  [fn : {"handleRedeem"}, redeemed : 0..NumCoupons, couponId : 1..NumCoupons]

\* every timer a component schedules: the component, what the timer is for,
\* and whether a cleanup of that component clears it
Timer(component, timer, cleared) ==
  [component |-> component, timer |-> timer, cleared |-> cleared]

TimerSites ==
  { Timer("Home", "welcome toast", FALSE),
    Timer("Home", "install prompt", TRUE),
    Timer("Home", "auto-save", TRUE),
    Timer("Home", "daily unlock", FALSE),
    Timer("Home", "milestone half", FALSE),
    Timer("Home", "milestone all", FALSE),
    Timer("Door", "new badge", TRUE),
    Timer("Door", "sparkle", TRUE),
    Timer("Door", "shake", TRUE),
    Timer("Door", "flip", TRUE),
    Timer("CouponModal", "focus", FALSE),
    Timer("CouponModal", "redeem", FALSE),
    Timer("CouponModal", "confetti", TRUE) }

\* the component of a timer unmounts while the timer is pending or not, and
\* then the delay passes: the cleanups run at the unmount, and a timer that
\* is still pending afterwards runs its callback
unmount(site, pending) ==
  LET pendingAfter == pending /\ ~site.cleared
  IN  [component |-> site.component, mounted |-> FALSE,
       callbackRan |-> pendingAfter]

TimerInputs == [fn : {"unmount"}, site : TimerSites, pending : BOOLEAN]

\* variant: the difference is not floored at zero
calculateDaysUntil_NoFloor(doorDay, today) ==
  IF today.month # DECEMBER_MONTH THEN doorDay
  ELSE doorDay - today.date

\* Door calculateDaysUntil(doorDay) with today = new Date()
calculateDaysUntil(doorDay, today) ==
  IF today.month # DECEMBER_MONTH THEN doorDay
  ELSE IF doorDay - today.date > 0 THEN doorDay - today.date ELSE 0

DaysUntilInputs ==
  [fn : {"calculateDaysUntil"}, day : 1..NumCoupons, today : CalendarDates]

\* Home.unlockedCount, the memoised function, with today = new Date()
unlockedCount(today) ==
  IF today.month # 11 THEN 0
  ELSE Cardinality({ i \in 1..Len(coupons) : coupons[i].day <= today.date })

\* the calendar date one day later
nextDay(d) ==
  IF d.date < DaysIn[d.month + 1]
    THEN [month |-> d.month, date |-> d.date + 1]
    ELSE [month |-> (d.month + 1) % 12, date |-> 1]

\* a render of Home on the date today, of a Home that mounted on the date
\* mounted: useMemo(..., []) keeps the unlockedCount of the first render,
\* the doors get isUnlocked(coupon.day) evaluated in this render
renderHome(mounted, today) ==
  [unlockedCount |-> unlockedCount(mounted),
   doorsUnlocked |->
     Cardinality({ i \in 1..Len(coupons) : isUnlockedOn(coupons[i].day, today) })]

\* Home renders on the day it mounted, or on the day after
RenderInputs == [fn : {"render"}, mounted : CalendarDates, dayAfter : BOOLEAN]

\* Profile calculateAchievements: the unlocked flag of each achievement
calculateAchievements(redeemedCount, totalCount, categoryCounts) ==
  [first_coupon |-> redeemedCount >= 1,
   five_coupons |-> redeemedCount >= 5,
   ten_coupons |-> redeemedCount >= 10,
   half_complete |-> 100 * redeemedCount >= 50 * totalCount,
   all_categories |-> Cardinality(DOMAIN categoryCounts) >= 3,
   complete |-> redeemedCount >= totalCount]

\* Profile.achievements for the redeemedCouponIds prop:
\* stats = getCouponStats(redeemedCouponIds)
achievements(redeemedCouponIds) ==
  LET profileStats == getCouponStats(coupons, redeemedCouponIds)
  IN  calculateAchievements(profileStats.redeemed, profileStats.total,
                            profileStats.redeemedByCategory)

\* the first coupon of each category of the catalog
CategoryFirsts ==
  { i \in 1..NumCoupons :
      \A j \in 1..(i - 1) : coupons[j].category # coupons[i].category }

\* Profile is shown with any set of those coupons redeemed
AchievementInputs == [fn : {"achievements"}, redeemed : SUBSET CategoryFirsts]

FnInputs ==
  IsUnlockedInputs \cup AuthInputs \cup HydrateInputs \cup StorageInputs
    \cup ValidateInputs \cup MilestoneInputs \cup TimerInputs
    \cup DaysUntilInputs \cup RenderInputs \cup AchievementInputs

FnOut(v) == [done |-> TRUE, out |-> v]

InitFn ==
  /\ now = 0
  /\ storedCoupons = StoredAbsent
  /\ storedDates = DatesAbsent
  /\ storedAuth = FALSE
  /\ InitHome
  /\ download = NoFile
  /\ lastOp = "other"
  /\ imported = NoImport
  /\ fnArg \in FnInputs
  /\ fnResult = NoResult

FnFrame ==
  UNCHANGED << now, mountVars, storeVars, homeVars, timerVars, resetToast, download,
               lastOp, imported, fnArg >>

ApplyIsUnlocked ==
  /\ ~fnResult.done
  /\ fnArg.fn = "isUnlocked"
  /\ fnResult' = FnOut(isUnlockedOn(fnArg.day, fnArg.today))
  /\ FnFrame

\* the gate: AuthModal.handleSubmit, then Home.handleAuthenticate(true) when
\* the date is accepted
ApplyHandleSubmit ==
  /\ ~fnResult.done
  /\ fnArg.fn = "authenticate"
  /\ LET success == handleSubmit(fnArg.day, fnArg.month, fnArg.year)
     IN  /\ fnResult' = FnOut(success)
         /\ IF success
              THEN /\ storedAuth' = TRUE
                   /\ isAuthenticated' = TRUE
                   /\ showAuthModal' = FALSE
              ELSE UNCHANGED << storedAuth, isAuthenticated, showAuthModal >>
  /\ UNCHANGED << now, storedName, herName, isHydrated, isMounted, commit,
                  storedCoupons, storedDates, state, redeemedDates,
                  renderClock, timerVars, resetToast, download, lastOp,
                  imported, fnArg >>

\* initializeData of a newly mounted Home on a stored value
ApplyInitializeData ==
  /\ ~fnResult.done
  /\ fnArg.fn = "initializeData"
  /\ fnResult' = FnOut(initializeData({}, fnArg.saved))
  /\ FnFrame

\* a handler that touches localStorage runs
ApplyStorage ==
  /\ ~fnResult.done
  /\ fnArg.fn = "storage"
  /\ fnResult' = FnOut(runHandler(fnArg.site, fnArg.throws, fnArg.couponId))
  /\ FnFrame

ApplyValidate ==
  /\ ~fnResult.done
  /\ fnArg.fn = "validateBackupData"
  /\ fnResult' = FnOut(validateBackupData(fnArg.data))
  /\ FnFrame

\* handleRedeem: the new redeemed set and the milestone toast it schedules
ApplyMilestone ==
  /\ ~fnResult.done
  /\ fnArg.fn = "handleRedeem"
  /\ LET prev == { Num(i) : i \in 1..fnArg.redeemed }
     IN  fnResult' = FnOut([before |-> prev,
                            after |-> addRedeemed(prev, fnArg.couponId),
                            toast |-> milestone(prev)])
  /\ FnFrame

\* a component with a scheduled timer is torn down
ApplyUnmount ==
  /\ ~fnResult.done
  /\ fnArg.fn = "unmount"
  /\ fnResult' = FnOut(unmount(fnArg.site, fnArg.pending))
  /\ FnFrame

\* a Door computes daysUntil and Home computes isUnlocked for the same day
ApplyDaysUntil ==
  /\ ~fnResult.done
  /\ fnArg.fn = "calculateDaysUntil"
  /\ fnResult' = FnOut([daysUntil |-> calculateDaysUntil(fnArg.day, fnArg.today),
                        isUnlocked |-> isUnlockedOn(fnArg.day, fnArg.today)])
  /\ FnFrame

\* Home renders
ApplyRender ==
  /\ ~fnResult.done
  /\ fnArg.fn = "render"
  /\ LET today == IF fnArg.dayAfter THEN nextDay(fnArg.mounted)
                  ELSE fnArg.mounted
     IN  fnResult' = FnOut([today |-> today] @@
                           renderHome(fnArg.mounted, today))
  /\ FnFrame

\* Profile renders its achievements
ApplyAchievements ==
  /\ ~fnResult.done
  /\ fnArg.fn = "achievements"
  /\ fnResult' =
       FnOut(achievements(SetToArray({ Num(i) : i \in fnArg.redeemed })))
  /\ FnFrame

NextFn ==
  \/ ApplyAchievements
  \/ ApplyRender
  \/ ApplyDaysUntil
  \/ ApplyUnmount
  \/ ApplyMilestone
  \/ ApplyIsUnlocked
  \/ ApplyHandleSubmit
  \/ ApplyInitializeData
  \/ ApplyStorage
  \/ ApplyValidate

SpecFn == InitFn /\ [][NextFn]_vars

\* ------------------------------------------------------------------------
\* SpecMount: a page load step by step. React renders Home, then runs the
\* effects of that render in one batch; the state they set is seen by the
\* next render. Handlers run once the page has settled.
\* ------------------------------------------------------------------------

\* the values of 'redeemedCoupons' a browser profile can hold at a load
PersistedLedgers ==
  { StoredAbsent } \cup
  { StoredArray(SetToArray({ Num(i) : i \in ids })) :
      ids \in (SUBSET Doors) \ { {} } }

\* 'redeemedDates' as handleRedeem leaves it for that ledger
PersistedDates(saved) ==
  IF saved.kind = "absent" THEN DatesAbsent
  ELSE DatesObject([i \in { x.n : x \in Range(saved.arr) } |-> 0])

InitMount ==
  /\ now \in Instants
  /\ storedAuth \in BOOLEAN
  /\ storedCoupons \in PersistedLedgers
  /\ storedDates = PersistedDates(storedCoupons)
  /\ storedName \in { "" } \cup WelcomeNames
  /\ (storedCoupons # StoredAbsent \/ storedName # "") => storedAuth
  /\ state = [selectedCoupon |-> NoCoupon, redeemedCoupons |-> {}]
  /\ redeemedDates = << >>
  /\ isAuthenticated = FALSE
  /\ renderClock = now
  /\ flipTimers = {}
  /\ isAnimating = FALSE
  /\ resetToast = FALSE
  /\ resetTimer = FALSE
  /\ importTimer = FALSE
  /\ herName = ""
  /\ isHydrated = FALSE
  /\ isMounted = FALSE
  /\ showAuthModal = FALSE
  /\ commit = Mounting
  /\ download = NoFile
  /\ lastOp = "other"
  /\ imported = NoImport
  /\ fnArg = NoArg
  /\ fnResult = NoResult

\* window.location.reload(), or the user reloads: a new Home is mounted
BeginLoad ==
  /\ state' = [selectedCoupon |-> NoCoupon, redeemedCoupons |-> {}]
  /\ redeemedDates' = << >>
  /\ isAuthenticated' = FALSE
  /\ renderClock' = now
  /\ flipTimers' = {}
  /\ isAnimating' = FALSE
  /\ resetToast' = FALSE
  /\ resetTimer' = FALSE
  /\ importTimer' = FALSE
  /\ herName' = ""
  /\ isHydrated' = FALSE
  /\ isMounted' = FALSE
  /\ showAuthModal' = FALSE
  /\ commit' = Mounting
  /\ download' = NoFile
  /\ imported' = NoImport
  /\ lastOp' = "other"
  /\ UNCHANGED << now, storedName, storeVars, fnVars >>

\* Home renders with the current state
Render ==
  /\ commit.phase = "render"
  /\ commit' = [commit EXCEPT
                  !.phase = "effects",
                  !.view = homeView(isMounted, isHydrated, isAuthenticated,
                                    showAuthModal)]
  /\ renderClock' = now
  /\ UNCHANGED << now, storedName, herName, isHydrated, isMounted,
                  showAuthModal, storeVars, state, redeemedDates,
                  isAuthenticated, timerVars, resetToast, download, lastOp,
                  imported, fnVars >>

\* the effects of the last render run, in the order of their declaration,
\* each with the state that render saw; an effect runs after the first
\* render and after a render in which one of its dependencies changed
FlushEffects ==
  /\ commit.phase = "effects"
  /\ LET cur == Deps(isMounted, isHydrated, herName)
         runRead == commit.first
         runWrite == \/ commit.first
                     \/ cur.herName # commit.deps.herName
                     \/ cur.isHydrated # commit.deps.isHydrated
         runMount == commit.first
         runAuth == commit.first \/ cur.isMounted # commit.deps.isMounted
         runInit == commit.first \/ cur # commit.deps
         doWrite == runWrite /\ isHydrated
         doAuth == runAuth /\ isMounted
         doInit == runInit /\ isHydrated /\ isMounted
     IN  \* useLocalStorage('herName'): read, then write
         /\ herName' = IF runRead /\ storedName # "" THEN storedName
                        ELSE herName
         /\ isHydrated' = (runRead \/ isHydrated)
         /\ storedName' = IF doWrite THEN herName ELSE storedName
         \* mount detection
         /\ isMounted' = (runMount \/ isMounted)
         \* authentication check
         /\ isAuthenticated' = ((doAuth /\ storedAuth) \/ isAuthenticated)
         /\ showAuthModal' = ((doAuth /\ ~storedAuth) \/ showAuthModal)
         \* initializeData
         /\ state' = IF doInit
                        THEN [state EXCEPT !.redeemedCoupons =
                                initializeData(@, storedCoupons)]
                        ELSE state
         /\ redeemedDates' = IF doInit
                                THEN initializeDates(redeemedDates, storedDates)
                                ELSE redeemedDates
         /\ LET changed ==
                  \/ << herName', isHydrated', isMounted', isAuthenticated',
                        showAuthModal' >>
                       # << herName, isHydrated, isMounted, isAuthenticated,
                            showAuthModal >>
                  \/ doInit /\ ( \/ storedCoupons.kind = "array"
                                 \/ storedDates.kind # "absent" )
            IN  commit' = [phase |-> IF changed THEN "render" ELSE "idle",
                           view |-> commit.view,
                           deps |-> cur,
                           first |-> FALSE,
                           initialized |-> (commit.initialized \/ doInit)]
  /\ UNCHANGED << now, storeVars, renderClock, timerVars, resetToast,
                  download, lastOp, imported, fnVars >>

\* nothing of Home is pending: the user can act on the page
Idle == commit.phase = "idle"

NextMount ==
  \/ Render
  \/ FlushEffects
  \/ BeginLoad
  \/ Idle /\ handleAuthenticate(TRUE)
  \/ Idle /\ \E name \in WelcomeNames : handleWelcomeComplete(name)
  \/ Idle /\ \E id \in Doors : LedgerRedeem(id)
  \/ Idle /\ \E file \in ValidFiles : handleFileSelect(file)
  \/ Idle /\ resetData
  \/ Idle /\ ConfirmReset

SpecMount == InitMount /\ [][NextMount]_vars

\* ------------------------------------------------------------------------
\* Properties
\* ------------------------------------------------------------------------

\* a step that loads the page
IsPageLoad == UserReload \/ ResetTimerFires \/ ImportTimerFires(TRUE)

\* the ids of a stored 'redeemedCoupons' value
StoredIds(saved) == Range(saved.arr)

\* C1 (SpecLedger): a redeem of an id that is already redeemed leaves the id
\* redeemed and leaves redeemedAt[id], in memory and under 'redeemedDates',
\* at the timestamp the first redeem wrote.
C1_SecondRedeemKeepsTimestamp ==
  [][\A id \in Doors :
       (isRedeemed(id) /\ id \in DOMAIN redeemedDates /\ LedgerRedeem(id))
         => /\ Num(id) \in state'.redeemedCoupons
            /\ redeemedDates'[id] = redeemedDates[id]
            /\ storedDates'.map[id] = redeemedDates[id]]_vars

\* C2: the keys of redeemedAt are redeemed ids, in memory and in
\* localStorage.
C2_DatesSubsetOfRedeemed ==
  /\ \A k \in DOMAIN redeemedDates : Num(k) \in state.redeemedCoupons
  /\ \A k \in DOMAIN storedDates.map : Num(k) \in StoredIds(storedCoupons)

\* C3: a door whose coupon is redeemed shows the status Redeemed, whatever
\* the clock said when Home rendered it.
C3_RedeemedDominates ==
  isAuthenticated =>
    \A id \in 1..NumCoupons : isRedeemed(id) => doorStatus(id) = "Redeemed"

\* C4: the page load that a confirmed reset schedules yields a ledger with
\* no redeemed id and stats().redeemed = 0.
C4_ResetClearsLedger ==
  [][ResetTimerFires =>
       /\ state'.redeemedCoupons = {}
       /\ stats'.redeemed = 0]_vars

\* the documents C5 calls invalid: not JSON, not an object, redeemedCoupons
\* not an array of numbers, exportDate not a string
InvalidDocument(file) ==
  \/ file.kind = "garbage"
  \/ /\ file.kind = "json"
     /\ \/ file.doc.top # "object"
        \/ file.doc.rcT # "array"
        \/ \E i \in 1..Len(file.doc.items) : file.doc.items[i].t # "number"
        \/ file.doc.edT # "string"

\* C5 (SpecLedger): the import of an invalid document changes neither the persisted
\* 'redeemedCoupons' nor the redeemed set in memory, and schedules no reload.
C5_InvalidImportLeavesLedger ==
  [][\/ /\ storedCoupons' = storedCoupons
        /\ state'.redeemedCoupons = state.redeemedCoupons
        /\ importTimer' = importTimer
        /\ resetTimer' = resetTimer
     \/ \A file \in Files :
          ~(InvalidDocument(file) /\ handleFileSelect(file))]_vars

\* an invalid document has been rejected while coupons are redeemed
C5_Witness ==
  /\ lastOp = "import-rejected"
  /\ state.redeemedCoupons # {}
  /\ StoredIds(storedCoupons) = state.redeemedCoupons

\* C6: in every ledger state, the empty one included, the export yields a
\* document that holds the redeemed set, the import of that document
\* persists its ids and schedules the reload, and the reload hydrates the
\* redeemed set from the persisted ids.
C6_RoundTripFromEveryState ==
  /\ [][exportData =>
          /\ download' # NoFile
          /\ NewSet(download'.doc.items) = state.redeemedCoupons]_vars
  /\ [][(download # NoFile /\ handleFileSelect(download)) =>
          /\ importTimer'
          /\ StoredIds(storedCoupons') = NewSet(download.doc.items)]_vars
  /\ [][ImportTimerFires(TRUE) =>
          state'.redeemedCoupons = StoredIds(storedCoupons)]_vars

\* C7: the redeem button never invokes the ledger's redeem for a door that
\* is Locked at that moment.
C7_NoRedeemOfLockedDoor ==
  [][CouponModal_handleRedeem =>
       isUnlocked(coupons[state.selectedCoupon].day)]_vars

\* C8 as claimed (SpecLedger): an id leaves the redeemed set only through a reset, i.e.
\* in a page load that finds 'redeemedCoupons' removed.
C8_StickyUntilReset ==
  [][\A x \in state.redeemedCoupons :
       x \notin state'.redeemedCoupons
         => IsPageLoad /\ storedCoupons = StoredAbsent]_vars

\* initializeData runs: at a page load, and again when herName changes
IsHydration ==
  IsPageLoad \/ \E name \in WelcomeNames : handleWelcomeComplete(name)

\* C8 as amended (SpecLedger): an id leaves the redeemed set only when the
\* ledger is hydrated again from a persisted value that does not hold it,
\* and only a confirmed reset or a successful import takes a redeemed id out
\* of the persisted value.
C8_StickyUntilResetOrImport ==
  /\ [][\A x \in state.redeemedCoupons :
          x \notin state'.redeemedCoupons
            => IsHydration /\ x \notin StoredIds(storedCoupons)]_vars
  /\ [][\A x \in state.redeemedCoupons \cap StoredIds(storedCoupons) :
          x \notin StoredIds(storedCoupons')
            => \/ ConfirmReset
               \/ \E file \in Files \cup {download} :
                    handleFileSelect(file) /\ importTimer']_vars

\* coupon 1 was redeemed at another instant than now and is still redeemed
\* after the clock moved, the page rendered again and an import was rejected
C8_Witness ==
  /\ isRedeemed(1)
  /\ 1 \in DOMAIN redeemedDates
  /\ redeemedDates[1] # now
  /\ renderClock = now
  /\ lastOp = "import-rejected"

\* C9 (SpecStats): redeemed + remaining = total, total is the catalog size
\* and redeemed is the size of the redeemed set.
C9_StatsSum ==
  fnResult.done =>
    /\ fnResult.out.redeemed + fnResult.out.remaining = fnResult.out.total
    /\ fnResult.out.total = Len(fnArg.catalog)
    /\ fnResult.out.redeemed = Cardinality(NewSet(fnArg.redeemedIds))

\* the stats of the shipped catalog have been computed for a redeemed set
\* that holds all 24 coupons or an id that is not in the catalog
C9_Witness ==
  /\ fnResult.done
  /\ fnArg.catalog = coupons
  /\ Len(fnArg.redeemedIds) >= NumCoupons

\* round(num / den), halves rounded up
RoundDiv(num, den) == (2 * num + den) \div (2 * den)

Applied(fn) == fnResult.done /\ fnArg.fn = fn

\* C11 (SpecFn): isUnlocked(day) is true exactly when the month is December
\* and the day of month is >= day; in December it is false on every earlier
\* day of month, outside December it is false.
C11_IsUnlocked ==
  Applied("isUnlocked") =>
    LET inDecember == fnArg.today.month = 11
        date == fnArg.today.date
    IN  /\ (inDecember /\ date >= fnArg.day) => fnResult.out = TRUE
        /\ (inDecember /\ date < fnArg.day) => fnResult.out = FALSE
        /\ ~inDecember => fnResult.out = FALSE

\* isUnlocked has answered for a door on its own day in December
C11_Witness ==
  /\ Applied("isUnlocked")
  /\ fnArg.today = [month |-> 11, date |-> fnArg.day]
  /\ fnResult.out = TRUE


\* C12 (SpecLedger): after a successful import the next page load hydrates
\* exactly the ids of the imported document, whatever was redeemed before.
C12_ImportReplaces ==
  [][(imported.pending /\ IsPageLoad) =>
       state'.redeemedCoupons = NewSet(imported.items)]_vars

\* C13 (SpecFn): for day, month and year of length 0..2 the gate opens and
\* 'advent-auth' is persisted exactly when the three components, zero-padded
\* to two digits, are 03 / 02 / 23; otherwise it stays closed and nothing is
\* persisted.
ZeroPadded(s) == padStart(trim(s), 2, << "0" >>)

C13_AuthIffAnniversary ==
  Applied("authenticate") =>
    LET match == /\ ZeroPadded(fnArg.day) = << "0", "3" >>
                 /\ ZeroPadded(fnArg.month) = << "0", "2" >>
                 /\ ZeroPadded(fnArg.year) = << "2", "3" >>
    IN  /\ match => (fnResult.out = TRUE /\ storedAuth)
        /\ ~match => (fnResult.out = FALSE /\ ~storedAuth)

\* C14 (SpecMount): once 'advent-auth' is persisted no handler (redeem,
\* import, confirmed reset, welcome flow) and no page load takes it away,
\* the gate is never shown while it is persisted, and every page load that
\* finds it ends authenticated.
C14_AuthPersists ==
  /\ [][storedAuth => storedAuth']_vars
  /\ [](storedAuth => ~showAuthModal)
  /\ []((storedAuth /\ Idle) => isAuthenticated)

\* a page load has finished with the door grid on screen and the gate
\* closed, for a profile that holds the flag, a name and a redeemed coupon
C14_Witness ==
  /\ storedAuth
  /\ Idle
  /\ commit.view = "grid"
  /\ isAuthenticated
  /\ ~showAuthModal
  /\ herName \in WelcomeNames
  /\ state.redeemedCoupons # {}
  /\ lastOp = "other"
  /\ ~resetTimer

\* C15 (SpecFn): hydration yields the empty redeemed set when the stored
\* value is missing, is not valid JSON, or is valid JSON that is not a
\* collection of numeric ids (an object, an array holding a string).
NumericIds(saved) ==
  /\ saved.kind = "array"
  /\ \A i \in 1..Len(saved.arr) : saved.arr[i].t = "number"

C15_HydrationFallsBackToEmpty ==
  (Applied("initializeData") /\ ~NumericIds(fnArg.saved))
    => fnResult.out = {}

\* C16 (SpecFn): when the browser storage throws on a read, a write or a
\* remove, the exception leaves no component, and a redeem made while
\* writes fail still leaves the coupon redeemed in memory.
C16_StorageFailuresContained ==
  (Applied("storage") /\ fnArg.throws) =>
    /\ ~fnResult.out.escaped
    /\ fnArg.site.handler = "handleRedeem"
         => Num(fnArg.couponId) \in fnResult.out.redeemedCoupons

\* C17 (SpecLedger): whenever export produces a document, its
\* redeemedCoupons is, as a set, the redeemed set Home holds in memory, its
\* exportDate is a string and its version is the codec version.
C17_ExportReflectsLedger ==
  [][(exportData /\ download' # NoFile) =>
       /\ download'.doc.rcT = "array"
       /\ NewSet(download'.doc.items) = state.redeemedCoupons
       /\ download'.doc.edT = "string"
       /\ download'.doc.version = BACKUP_VERSION]_vars

\* C18 (SpecFn): a parsed document is accepted exactly when it is an object
\* whose redeemedCoupons is an array of integers and whose exportDate is a
\* string; an entry that is a string or a number such as 1.5 rejects it.
IsInteger(v) == v.t = "number" /\ v.f = 0

C18_OnlyIntegerEntries ==
  Applied("validateBackupData") =>
    LET data == fnArg.data
    IN  fnResult.out =
          ( /\ data.top = "object"
            /\ data.rcT = "array"
            /\ \A i \in 1..Len(data.items) : IsInteger(data.items[i])
            /\ data.edT = "string" )

\* C19 (SpecLedger): after a confirmed reset and the page load that follows
\* it no timestamp is left, neither in the persisted 'redeemedDates' nor in
\* the redeemedDates of Home.
C19_ResetClearsDates ==
  [][ResetTimerFires =>
       /\ storedDates'.map = << >>
       /\ redeemedDates' = << >>]_vars

\* C20 (SpecMount): whenever Home has rendered the door grid, hydration
\* has already run, and every coupon of the persisted 'redeemedCoupons' is
\* redeemed in the set the grid shows (a backup imported on this page, which
\* waits for its reload, aside).
C20_HydratedBeforeGrid ==
  commit.view = "grid" =>
    /\ commit.initialized
    /\ ~imported.pending =>
         StoredIds(storedCoupons) \subseteq state.redeemedCoupons

\* Home has just rendered the door grid for the first time after a page
\* load, for a profile whose store holds a redeemed coupon
C20_Witness ==
  /\ commit.phase = "effects"
  /\ commit.view = "grid"
  /\ storedCoupons.kind = "array"
  /\ StoredIds(storedCoupons) # {}
  /\ state.redeemedCoupons = StoredIds(storedCoupons)

\* C21 (SpecRedeem): a redeem of an id that is not yet redeemed leaves the
\* persisted 'redeemedCoupons' equal, as a set, to the redeemed set of Home
\* and the persisted 'redeemedDates' equal to redeemedDates of Home, the id
\* is in both, and every other timestamp is the one it was before.
C21_RedeemPersistsBothMaps ==
  [][\A id \in RedeemIds :
       (LedgerRedeem(id) /\ ~isRedeemed(id)) =>
         /\ Num(id) \in state'.redeemedCoupons
         /\ storedCoupons'.kind = "array"
         /\ StoredIds(storedCoupons') = state'.redeemedCoupons
         /\ id \in DOMAIN redeemedDates'
         /\ storedDates' = DatesObject(redeemedDates')
         /\ \A x \in DOMAIN redeemedDates \ {id} :
              /\ x \in DOMAIN redeemedDates'
              /\ redeemedDates'[x] = redeemedDates[x]]_vars

\* two coupons are redeemed and persisted, the first at an earlier instant
\* than the second, and both timestamps are in both maps
C21_Witness ==
  /\ state.redeemedCoupons = { Num(1), Num(2) }
  /\ StoredIds(storedCoupons) = state.redeemedCoupons
  /\ DOMAIN redeemedDates = { 1, 2 }
  /\ redeemedDates[1] # redeemedDates[2]
  /\ storedDates = DatesObject(redeemedDates)

\* C22 (SpecAutoSave): when a write of a redeem was missed, so that the
\* persisted redeemed set is not the one Home holds, the periodic persist
\* eventually makes the two equal, the page staying open.
PersistMissed == StoredIds(storedCoupons) # state.redeemedCoupons

C22_AutoSaveCatchesUp == PersistMissed ~> ~PersistMissed

\* coupon 1 was redeemed while the store refused the writes and the
\* interval has since written the set: 'redeemedCoupons' holds it, while
\* 'redeemedDates' was never written
C22_Witness ==
  /\ state.redeemedCoupons = { Num(1) }
  /\ storedCoupons.kind = "array"
  /\ ~PersistMissed
  /\ 1 \in DOMAIN redeemedDates
  /\ storedDates.kind = "absent"

\* C23 (SpecRedeem): the persisted ledger is removed only by the
\* affirmative answer to a confirmation toast that is on screen; presenting
\* the toast and cancelling it leave the persisted and the in-memory ledger
\* as they are.
C23_ResetIsTwoStep ==
  /\ [][(storedCoupons # StoredAbsent /\ storedCoupons' = StoredAbsent)
          => (resetToast /\ ConfirmReset)]_vars
  /\ [][(resetData \/ CancelReset)
          => UNCHANGED << storedCoupons, storedDates, state,
                          redeemedDates >>]_vars

\* a confirmed reset has removed the persisted ledger of a page that still
\* shows a redeemed coupon; the toast is gone and the reload is scheduled
C23_Witness ==
  /\ resetTimer
  /\ ~resetToast
  /\ storedCoupons = StoredAbsent
  /\ state.redeemedCoupons # {}

\* C24 (SpecFn): a redeem schedules the half-way toast exactly when it
\* brings the redeemed set to half of the catalog, the final toast exactly
\* when it brings it to the whole catalog, and no toast when the set keeps
\* its size because the id was redeemed before.
C24_MilestoneOncePerCrossing ==
  Applied("handleRedeem") =>
    LET before == Cardinality(fnResult.out.before)
        after == Cardinality(fnResult.out.after)
        reached(n) == before < n /\ after = n
    IN  /\ fnResult.out.toast = "half" <=> reached(NumCoupons \div 2)
        /\ fnResult.out.toast = "all" <=> reached(NumCoupons)
        /\ after = before => fnResult.out.toast = "none"

\* C25 (SpecFn): no timer callback runs after the component that scheduled
\* the timer has unmounted.
C25_NoCallbackAfterUnmount ==
  Applied("unmount") =>
    ~(~fnResult.out.mounted /\ fnResult.out.callbackRan)

C27_UnlockedCountCurrent ==
  Applied("render") =>
    LET today == fnResult.out.today
        expected ==
          IF today.month # 11 THEN 0
          ELSE Cardinality({ i \in 1..NumCoupons : coupons[i].day <= today.date })
    IN  /\ fnResult.out.unlockedCount = expected
        /\ fnResult.out.unlockedCount = fnResult.out.doorsUnlocked

\* C28 (SpecFn): the achievement all_categories is unlocked exactly when
\* every category of the catalog has at least one redeemed coupon.
C28_AllCategories ==
  Applied("achievements") =>
    LET categories == { coupons[i].category : i \in 1..NumCoupons }
        covered == { coupons[i].category : i \in fnArg.redeemed }
    IN  fnResult.out.all_categories <=> covered = categories

\* the sum of the values of a record of counts
RECURSIVE SumOfCounts(_)
SumOfCounts(counts) ==
  IF DOMAIN counts = {} THEN 0
  ELSE LET k == CHOOSE c \in DOMAIN counts : TRUE
       IN  counts[k] + SumOfCounts([c \in DOMAIN counts \ {k} |-> counts[c]])

\* C29 (SpecLedger): in every reachable state, the states after a validated
\* import and the hydration that follows included, the statistics Home
\* shows satisfy 0 <= redeemed <= total, remaining >= 0,
\* 0 <= percentage <= 100, and the counts of redeemedByCategory add up to
\* redeemed.
C29_StatsWithinBounds ==
  /\ stats.redeemed >= 0
  /\ stats.redeemed <= stats.total
  /\ stats.remaining >= 0
  /\ stats.percentage.kind = "finite"
  /\ stats.percentage.v >= 0
  /\ stats.percentage.v <= 100
  /\ SumOfCounts(stats.redeemedByCategory) = stats.redeemed

\* C30 (SpecLedger): between a successful import and the reload, a write
\* of the Home that is still running does not put its pre-import set over
\* the imported value: after an auto-save the persisted ids are the
\* imported ids, and after a redeem they are the imported ids and the
\* redeemed id.
C30_NoStaleWriteAfterImport ==
  [][imported.pending =>
       /\ AutoSave => StoredIds(storedCoupons') = NewSet(imported.items)
       /\ \A id \in Doors :
            LedgerRedeem(id) =>
              StoredIds(storedCoupons') =
                SetAdd(NewSet(imported.items), Num(id))]_vars

====
